---- MODULE Spec2Model ----
(***************************************************************************)
(* Resource-transfer engines of the GraphicsDevice plugin (D3D11, D3D9,   *)
(* Vulkan): staging texture cache, staging buffer slots and the texture / *)
(* buffer read and write operations.                                      *)
(*                                                                         *)
(* Three specifications share the variables:                              *)
(*   SpecCache  staging-texture requests against the 32-entry cache       *)
(*   SpecBuf    getStagingBuffer requests against the per-kind slots      *)
(*   Spec       readTexture / writeTexture / readBuffer / writeBuffer     *)
(***************************************************************************)
EXTENDS Integers, Sequences, FiniteSets, TLC

VARIABLES
    deviceType,          \* "D3D11" | "D3D9" | "Vulkan": the engine behind the facade
    padding,             \* bytes the backend adds to a mapped row (RowPitch / Pitch)
    tex,                 \* the caller's primary texture: desc, CPU access flags, texels
    buf,                 \* the caller's primary buffer: CPU access flags
    m_staging_textures,  \* std::map<uint64_t, staging texture>: key -> handle
    m_staging_buffers,   \* std::array<ID3D11Buffer*, End>: kind -> [h, ByteWidth]
    nTexCreated,         \* staging textures created so far (handles are 1..nTexCreated)
    nBufCreated,         \* staging buffers created so far
    released,            \* staging texture handles released so far
    cpuSrc,              \* the CPU buffer handed to the last writeTexture
    cpuDst,              \* the CPU buffer filled by the last readTexture
    wr,                  \* what the last writeTexture call was and how it went
    last,                \* the last call: operation, return value, backend calls made
    args,                \* the arguments of the last call
    obs,                 \* what the last call saw and did to the staging resources
    gpu,                 \* the sync() in progress: caller, position, marker, polls
    life                 \* the engine object: created or not, what it owns and freed

vars == <<deviceType, padding, tex, buf, m_staging_textures, m_staging_buffers,
          nTexCreated, nBufCreated, released, cpuSrc, cpuDst, wr, last, args, obs,
          gpu, life>>

(***************************************************************************)
(* Bounds of the model.                                                    *)
(***************************************************************************)
CacheMaxW == 9
CacheMaxH == 2
MaxTexCreates == 36
MaxBufMiB == 1
MaxPad == 1
MaxBufCreates == 3

(***************************************************************************)
(* GraphicsDevice.h: texture formats, buffer kinds, errors.                *)
(***************************************************************************)
TextureFormat ==
    {"Unknown",
     "Rf16", "RGf16", "RGBAf16", "Rf32", "RGf32", "RGBAf32",
     "Ru8", "RGu8", "RGBAu8", "Ri16", "RGi16", "RGBAi16",
     "Ri32", "RGi32", "RGBAi32", "I420"}

\* The Type_* field of a format (TypeMask).
TypeOf(fmt) ==
    CASE fmt \in {"Rf16", "RGf16", "RGBAf16"} -> "f16"
      [] fmt \in {"Rf32", "RGf32", "RGBAf32"} -> "f32"
      [] fmt \in {"Ru8", "RGu8", "RGBAu8"} -> "u8"
      [] fmt \in {"Ri16", "RGi16", "RGBAi16"} -> "i16"
      [] fmt \in {"Ri32", "RGi32", "RGBAi32"} -> "i32"
      [] OTHER -> "none"

\* The Elements_* field of a format (ElementsMask).
ElementsOf(fmt) ==
    CASE fmt \in {"Rf16", "Rf32", "Ru8", "Ri16", "Ri32"} -> 1
      [] fmt \in {"RGf16", "RGf32", "RGu8", "RGi16", "RGi32"} -> 2
      [] fmt \in {"RGBAf16", "RGBAf32", "RGBAu8", "RGBAi16", "RGBAi32"} -> 4
      [] OTHER -> 0

\* Bytes of one component of the given type; 0 for an unrecognized type.
ComponentSize(type) ==
    CASE type = "u8" -> 1
      [] type \in {"f16", "i16"} -> 2
      [] type \in {"f32", "i32"} -> 4
      [] OTHER -> 0

\* int GetTexelSize(TextureFormat): Rf32 -> 4, RGBAf16 -> 8, RGBAu8 -> 4, 0 if unrecognized.
GetTexelSize(fmt) == ComponentSize(TypeOf(fmt)) * ElementsOf(fmt)

BufferType == {"Index", "Vertex", "Constant", "Compute"}

Error == {"OK", "Unknown", "NotAvailable", "InvalidParameter", "OutOfMemory",
          "InaccesibleFromCPU"}

(***************************************************************************)
(* Backend calls made by an operation, in order.  h is the staging handle  *)
(* the call is about (0: the caller's resource, or none).                  *)
(***************************************************************************)
Ev(e, h) == [e |-> e, h |-> h]

Range(f) == {f[k] : k \in DOMAIN f}

EmptyMap == [k \in {} |-> 0]

(***************************************************************************)
(* Staging texture cache.                                                  *)
(***************************************************************************)
D3D11MaxStagingTextures == 32
D3D9MaxStagingTextures == 32

GetInternalFormatD3D11(fmt) ==
    CASE fmt = "RGBAu8" -> "DXGI_FORMAT_R8G8B8A8_TYPELESS"
      [] fmt = "RGBAf16" -> "DXGI_FORMAT_R16G16B16A16_FLOAT"
      [] fmt = "RGf16" -> "DXGI_FORMAT_R16G16_FLOAT"
      [] fmt = "Rf16" -> "DXGI_FORMAT_R16_FLOAT"
      [] fmt = "RGBAf32" -> "DXGI_FORMAT_R32G32B32A32_FLOAT"
      [] fmt = "RGf32" -> "DXGI_FORMAT_R32G32_FLOAT"
      [] fmt = "Rf32" -> "DXGI_FORMAT_R32_FLOAT"
      [] fmt = "RGBAi32" -> "DXGI_FORMAT_R32G32B32A32_SINT"
      [] fmt = "RGi32" -> "DXGI_FORMAT_R32G32_SINT"
      [] fmt = "Ri32" -> "DXGI_FORMAT_R32_SINT"
      [] OTHER -> "DXGI_FORMAT_UNKNOWN"

GetInternalFormatD3D9(fmt) ==
    CASE fmt = "RGBAu8" -> "D3DFMT_A8R8G8B8"
      [] fmt = "RGBAf16" -> "D3DFMT_A16B16G16R16F"
      [] fmt = "RGf16" -> "D3DFMT_G16R16F"
      [] fmt = "Rf16" -> "D3DFMT_R16F"
      [] fmt = "RGBAf32" -> "D3DFMT_A32B32G32R32F"
      [] fmt = "RGf32" -> "D3DFMT_G32R32F"
      [] fmt = "Rf32" -> "D3DFMT_R32F"
      [] OTHER -> "D3DFMT_UNKNOWN"

\* uint64_t hash = width + (height << 16) + ((uint64_t)internal_format << 32):
\* the high word is the native format, the low word width + height * 65536
\* (exact while width + height * 65536 stays below 2^31, as it does for the
\* widths and heights the model draws).
Hash(width, height, internal_format) == <<internal_format, width + height * 65536>>

\* Variant: every cached texture is released but the map is not cleared.
clearStagingTextures_KeepsEntries(textures) ==
    [textures |-> textures,
     rel |-> Range(textures),
     ev |-> <<Ev("clearStagingTextures", Cardinality(DOMAIN textures))>>]

\* clearStagingTextures(): Release() every cached texture, then clear the map.
clearStagingTextures(textures) ==
    [textures |-> EmptyMap,
     rel |-> Range(textures),
     ev |-> <<Ev("clearStagingTextures", Cardinality(DOMAIN textures))>>]

Insert(textures, key, h) ==
    [k \in DOMAIN textures \cup {key} |-> IF k = key THEN h ELSE textures[k]]

\* The backend refuses to create a resource of an unknown native format;
\* any other creation may succeed or fail.
CreateOutcomes(internal_format) ==
    IF internal_format \in {"DXGI_FORMAT_UNKNOWN", "D3DFMT_UNKNOWN"}
    THEN {FALSE} ELSE BOOLEAN

\* Variant: the size check written with > in place of >=.
AfterSizeCheck_Greater(textures, Max) ==
    IF Cardinality(DOMAIN textures) > Max
    THEN clearStagingTextures(textures)
    ELSE [textures |-> textures, rel |-> {}, ev |-> <<>>]

\* The cache after the size check of both engines: cleared when it holds
\* Max entries or more.
AfterSizeCheck(textures, Max) ==
    IF Cardinality(DOMAIN textures) >= Max
    THEN clearStagingTextures(textures)
    ELSE [textures |-> textures, rel |-> {}, ev |-> <<>>]

\* The lookup and creation that follow; n is the number of textures created so
\* far, createOK the outcome of CreateTexture2D / CreateOffscreenPlainSurface.
\* ret is the handle returned (0: nullptr).
FindOrCreate(c, n, key, createName, createOK) ==
    IF key \in DOMAIN c.textures
    THEN [textures |-> c.textures, n |-> n, rel |-> c.rel, ret |-> c.textures[key],
          ev |-> c.ev, failed |-> FALSE]
    ELSE IF createOK
    THEN [textures |-> Insert(c.textures, key, n + 1), n |-> n + 1, rel |-> c.rel,
          ret |-> n + 1, ev |-> c.ev \o <<Ev(createName, n + 1)>>, failed |-> FALSE]
    ELSE [textures |-> c.textures, n |-> n, rel |-> c.rel, ret |-> 0,
          ev |-> c.ev \o <<Ev(createName, 0)>>, failed |-> TRUE]

\* ID3D11Texture2D* GraphicsDeviceD3D11::getStagingTexture(width, height, format)
getStagingTexture(textures, n, width, height, format, createOK) ==
    LET c == AfterSizeCheck(textures, D3D11MaxStagingTextures)
        internal_format == GetInternalFormatD3D11(format)
        hash == Hash(width, height, internal_format)
    IN  FindOrCreate(c, n, hash, "CreateTexture2D", createOK)

\* IDirect3DSurface9* GraphicsDeviceD3D9::findOrCreateStagingTexture(width, height, format)
findOrCreateStagingTexture(textures, n, width, height, format, createOK) ==
    LET c == AfterSizeCheck(textures, D3D9MaxStagingTextures)
        internal_format == GetInternalFormatD3D9(format)
        hash == Hash(width, height, internal_format)
    IN  IF internal_format = "D3DFMT_UNKNOWN"
        THEN [textures |-> c.textures, n |-> n, rel |-> c.rel, ret |-> 0,
              ev |-> c.ev, failed |-> TRUE]
        ELSE FindOrCreate(c, n, hash, "CreateOffscreenPlainSurface", createOK)

InternalFormat(dev, format) ==
    IF dev = "D3D11" THEN GetInternalFormatD3D11(format) ELSE GetInternalFormatD3D9(format)

StagingTexture(dev, textures, n, width, height, format, createOK) ==
    IF dev = "D3D11"
    THEN getStagingTexture(textures, n, width, height, format, createOK)
    ELSE findOrCreateStagingTexture(textures, n, width, height, format, createOK)

(***************************************************************************)
(* Staging buffer slots (D3D11).                                           *)
(***************************************************************************)
StagingBufferFloor == 1048576

\* size_t size = 1024 * 1024; while (size < size_required) { size *= 2; }
RECURSIVE GrowTo(_, _)
GrowTo(size, size_required) ==
    IF size < size_required THEN GrowTo(size * 2, size_required) ELSE size

\* Variant: the slot is replaced whenever the rounded size differs from the
\* current one, so a smaller request shrinks it.
StagingBufferMustGrow_NotEqual(size, current_size) == size # current_size

\* if (size > current_size)
StagingBufferMustGrow(size, current_size) == size > current_size

\* ID3D11Buffer* GraphicsDeviceD3D11::getStagingBuffer(type, size_required);
\* n is the number of buffers created so far, createOK the outcome of
\* CreateBuffer.  ret is the slot returned ([h |-> 0, ...]: nullptr).
getStagingBuffer(buffers, n, type, size_required, createOK) ==
    LET size == GrowTo(StagingBufferFloor, size_required)
        staging == buffers[type]
        current_size == IF staging.h # 0 THEN staging.ByteWidth ELSE 0
        relEv == IF staging.h # 0 THEN <<Ev("Release", staging.h)>> ELSE <<>>
        rel == IF staging.h # 0 THEN {staging.h} ELSE {}
    IN  IF StagingBufferMustGrow(size, current_size)
        THEN IF createOK
             THEN [buffers |-> [buffers EXCEPT ![type] = [h |-> n + 1, ByteWidth |-> size]],
                   n |-> n + 1, ret |-> [h |-> n + 1, ByteWidth |-> size], rel |-> rel,
                   ev |-> relEv \o <<Ev("CreateBuffer", n + 1)>>, failed |-> FALSE]
             ELSE [buffers |-> [buffers EXCEPT ![type] = [h |-> 0, ByteWidth |-> 0]],
                   n |-> n, ret |-> [h |-> 0, ByteWidth |-> 0], rel |-> rel,
                   ev |-> relEv \o <<Ev("CreateBuffer", 0)>>, failed |-> TRUE]
        ELSE [buffers |-> buffers, n |-> n, ret |-> staging, rel |-> {},
              ev |-> <<>>, failed |-> FALSE]

\* The capacity of a slot: desc.ByteWidth of its buffer, 0 when it is empty.
Capacity(slot) == IF slot.h # 0 THEN slot.ByteWidth ELSE 0

(***************************************************************************)
(* CPU and mapped memory: byte sequences addressed from offset 0.          *)
(***************************************************************************)
\* The byte at an offset; g is what an access outside the block yields.
Rd(mem, off, g) == IF off >= 0 /\ off < Len(mem) THEN mem[off + 1] ELSE g

\* memcpy(dst + dOff, src + sOff, n), seen from dst.
Memcpy(dst, dOff, src, sOff, n, g) ==
    [i \in 1..Len(dst) |->
        IF i - 1 >= dOff /\ i - 1 < dOff + n
        THEN Rd(src, sOff + (i - 1 - dOff), g)
        ELSE dst[i]]

\* The copy reads or writes outside its blocks.
OutOfBounds(dst, dOff, src, sOff, n) ==
    n > 0 /\ (sOff + n > Len(src) \/ dOff + n > Len(dst))

\* for (i = 0; i < height; ++i) { memcpy(d, s, n); d += dst_pitch; s += src_pitch; }
RECURSIVE RowCopy(_, _, _, _, _, _, _, _)
RowCopy(dst, src, i, height, n, dst_pitch, src_pitch, g) ==
    IF i >= height THEN dst
    ELSE RowCopy(Memcpy(dst, i * dst_pitch, src, i * src_pitch, n, g),
                 src, i + 1, height, n, dst_pitch, src_pitch, g)

RowsOutOfBounds(dst, src, height, n, dst_pitch, src_pitch) ==
    \E i \in 0..(height - 1) : OutOfBounds(dst, i * dst_pitch, src, i * src_pitch, n)

\* The pitch-aware copy as the engines write it: one memcpy of `bulk` bytes when
\* the pitches are equal, else `height` memcpys of `rowBytes` bytes.
PitchCopy(dst, src, dst_pitch, src_pitch, bulk, height, rowBytes, g) ==
    IF dst_pitch = src_pitch
    THEN Memcpy(dst, 0, src, 0, bulk, g)
    ELSE RowCopy(dst, src, 0, height, rowBytes, dst_pitch, src_pitch, g)

PitchCopyOutOfBounds(dst, src, dst_pitch, src_pitch, bulk, height, rowBytes) ==
    IF dst_pitch = src_pitch
    THEN OutOfBounds(dst, 0, src, 0, bulk)
    ELSE RowsOutOfBounds(dst, src, height, rowBytes, dst_pitch, src_pitch)

\* The copy moves at least one byte.
PitchCopyTouches(dst_pitch, src_pitch, bulk, height, rowBytes) ==
    IF dst_pitch = src_pitch THEN bulk > 0 ELSE height > 0 /\ rowBytes > 0

Fill(n, g) == [i \in 1..n |-> g]

(***************************************************************************)
(* A 2D resource as the backend holds it: `rows` rows of `rowBytes` texel  *)
(* bytes.  Mapped or locked, it shows as rows * pitch bytes, the bytes     *)
(* past rowBytes in each row being padding.                                *)
(***************************************************************************)
TexRes(t) == [rows |-> t.h, rowBytes |-> t.w * GetTexelSize(t.fmt), data |-> t.data]

MapView(res, pitch, g) ==
    [i \in 1..(res.rows * pitch) |->
        IF (i - 1) % pitch < res.rowBytes
        THEN res.data[((i - 1) \div pitch) * res.rowBytes + ((i - 1) % pitch) + 1]
        ELSE g]

\* The texel bytes of a mapped block, as Unmap / UnlockRect hands them back.
Logical(mem, rows, rowBytes, pitch) ==
    [i \in 1..(rows * rowBytes) |->
        mem[((i - 1) \div rowBytes) * pitch + ((i - 1) % rowBytes) + 1]]

\* Variant: the conversion leaves the bytes in the backend's order.
BGRA_RGBA_conversion_None(data, num_pixels) == data

\* template<class T> void BGRA_RGBA_conversion(RGBA<T> *data, int num_pixels)
BGRA_RGBA_conversion(data, num_pixels) ==
    [i \in 1..Len(data) |->
        IF (i - 1) \div 4 >= num_pixels THEN data[i]
        ELSE IF (i - 1) % 4 = 0 THEN Rd(data, i + 1, data[i])
        ELSE IF (i - 1) % 4 = 2 THEN data[i - 2]
        ELSE data[i]]

\* template<class T> void copy_with_BGRA_RGBA_conversion(RGBA<T> *dst, const RGBA<T> *src, int num_pixels)
copy_with_BGRA_RGBA_conversion(dst, src, num_pixels, g) ==
    [i \in 1..Len(dst) |->
        IF (i - 1) \div 4 >= num_pixels THEN dst[i]
        ELSE IF (i - 1) % 4 = 0 THEN Rd(src, i + 1, g)
        ELSE IF (i - 1) % 4 = 2 THEN Rd(src, i - 3, g)
        ELSE Rd(src, i - 1, g)]

\* ceildiv(a, b) of gdInternal.h: the quotient rounded up.
ceildiv(a, b) == (a + b - 1) \div b

(***************************************************************************)
(* The operations.  S is the engine and resource state at the call:        *)
(*   [tex, textures, n, buffers, nb, pad]                                  *)
(* a the arguments:                                                        *)
(*   [dst, res, src: "ptr" | "null", w, h, fmt, size, kind, data]          *)
(* (data: the bytes of the caller's CPU buffer), and o what the backend    *)
(* and the machine answer during the call:                                 *)
(*   [create, surf, copy, map: BOOLEAN, mappable, g, ubRet]                *)
(* (g: the byte uninitialised or out-of-block memory holds; ubRet: how a   *)
(* call that runs into undefined behaviour ends).                          *)
(* The result carries the return value, the backend calls made, and the    *)
(* state the call leaves.                                                  *)
(***************************************************************************)
Result(S, a) ==
    [ret |-> "OK", ev |-> <<>>, failed |-> FALSE, ub |-> FALSE,
     dst |-> a.data, data |-> S.tex.data,
     textures |-> S.textures, n |-> S.n, rel |-> {}, hnd |-> 0,
     buffers |-> S.buffers, nb |-> S.nb, relb |-> {}]

Call(r, e, h) == [r EXCEPT !.ev = @ \o <<Ev(e, h)>>]

Return(r, err) == [r EXCEPT !.ret = err]

Fail(r, err) == [r EXCEPT !.ret = err, !.failed = TRUE]

\* The call dereferences a null pointer, divides by zero or hands the backend a
\* null resource: what happens next is not defined.
Undefined(r, o, what) ==
    [r EXCEPT !.ret = o.ubRet, !.ub = TRUE, !.ev = @ \o <<Ev(what, 0)>>]

\* The outcome of a staging request folded into the result.
WithStaging(r, s) ==
    [r EXCEPT !.textures = s.textures, !.n = s.n, !.rel = s.rel, !.hnd = s.ret,
              !.ev = @ \o s.ev, !.failed = @ \/ s.failed]

\* The staging texture after the GPU-side copy of the caller's texture into it.
StagingRes(S, a, g) ==
    LET rowBytes == a.w * GetTexelSize(a.fmt)
    IN  [rows |-> a.h, rowBytes |-> rowBytes,
         data |-> IF a.w = S.tex.w /\ a.h = S.tex.h /\ a.fmt = S.tex.fmt
                  THEN S.tex.data ELSE Fill(a.h * rowBytes, g)]

\* int src_pitch = mapped.RowPitch;
ReadSrcPitch(dst_pitch, mapped_pitch) == mapped_pitch

\* GraphicsDeviceD3D11::readTexture: the proc_read lambda, on resource `res`
\* (handle hnd).
proc_read_texture(r, a, res, hnd, S, o) ==
    LET r1 == Call(r, "Map", hnd)
        mapped == MapView(res, res.rowBytes + S.pad, o.g)
        dst_pitch == a.w * GetTexelSize(a.fmt)
        src_pitch == ReadSrcPitch(dst_pitch, res.rowBytes + S.pad)
        touches == PitchCopyTouches(dst_pitch, src_pitch, a.size, a.h, dst_pitch)
        oob == PitchCopyOutOfBounds(r.dst, mapped, dst_pitch, src_pitch, a.size, a.h, dst_pitch)
    IN  IF ~o.map THEN Fail(r1, "Unknown")
        ELSE IF touches /\ a.dst = "null" THEN Undefined(r1, o, "memcpy")
        ELSE IF oob /\ o.ubRet = "Crash" THEN Undefined(r1, o, "memcpy")
        ELSE [Call(Call(r1, "memcpy", hnd), "Unmap", hnd) EXCEPT
                 !.dst = PitchCopy(r.dst, mapped, dst_pitch, src_pitch, a.size, a.h,
                                   dst_pitch, o.g),
                 !.ub = oob]

\* Error GraphicsDeviceD3D11::readTexture(dst, dst_size, src_tex_, width, height, format)
D3D11_readTexture(S, a, o) ==
    LET r0 == Result(S, a)
        r1 == Call(r0, "GetDesc", 0)
        s == getStagingTexture(S.textures, S.n, a.w, a.h, a.fmt, o.create)
        r2 == WithStaging(r1, s)
    IN  IF a.res = "null" THEN Return(r0, "InvalidParameter")
        ELSE IF S.tex.cpuRead THEN proc_read_texture(r1, a, TexRes(S.tex), 0, S, o)
        ELSE IF s.ret = 0 THEN Undefined(r2, o, "CopyResource")
        ELSE proc_read_texture(Call(Call(r2, "CopyResource", s.ret), "sync", 0),
                               a, StagingRes(S, a, o.g), s.ret, S, o)

\* if (FAILED(hr)) { gdLogError(...); } ... return Error::OK;
WriteMapFailed(r) == Fail(r, "OK")

\* memcpy(dst_pixels, src_pixels, dst_pitch);
WriteRowBytes(dst_pitch, src_pitch) == dst_pitch

\* UpdateSubresource(dst_tex, 0, &box, src, pitch, 0): rows [0, bottom) of the
\* texture are read from src, `pitch` bytes apart.
UpdateSubresource(t, bottom, src, pitch, g) ==
    LET rowBytes == t.w * GetTexelSize(t.fmt)
    IN  [i \in 1..Len(t.data) |->
            IF (i - 1) \div rowBytes < bottom
            THEN Rd(src, ((i - 1) \div rowBytes) * pitch + ((i - 1) % rowBytes), g)
            ELSE t.data[i]]

\* Error GraphicsDeviceD3D11::writeTexture(dst_tex_, width, height, format, src, src_size)
D3D11_writeTexture(S, a, o) ==
    LET r0 == Result(S, a)
        r1 == Call(r0, "GetDesc", 0)
        psize == GetTexelSize(a.fmt)
        pitch == psize * a.w
        num_pixels == a.size \div psize
        res == TexRes(S.tex)
        r2 == Call(r1, "Map", 0)
        dst_pitch == res.rowBytes + S.pad
        src_pitch == a.w * GetTexelSize(a.fmt)
        rowBytes == WriteRowBytes(dst_pitch, src_pitch)
        mapped == Fill(res.rows * dst_pitch, o.g)
        oob == PitchCopyOutOfBounds(mapped, a.data, dst_pitch, src_pitch, a.size, a.h, rowBytes)
        written == PitchCopy(mapped, a.data, dst_pitch, src_pitch, a.size, a.h, rowBytes, o.g)
        bottom == ceildiv(num_pixels, a.w)
    IN  IF a.res = "null" \/ a.src = "null" THEN Return(r0, "InvalidParameter")
        ELSE IF psize = 0 THEN Undefined(r1, o, "divide")
        ELSE IF S.tex.cpuWrite
        THEN IF ~o.map THEN WriteMapFailed(r2)
             ELSE IF oob /\ o.ubRet = "Crash" THEN Undefined(r2, o, "memcpy")
             ELSE [Call(Call(r2, "memcpy", 0), "Unmap", 0) EXCEPT
                      !.data = Logical(written, res.rows, res.rowBytes, dst_pitch),
                      !.ub = oob]
        ELSE IF a.w = 0 THEN Undefined(r1, o, "divide")
        ELSE [Call(r1, "UpdateSubresource", 0) EXCEPT
                 !.data = UpdateSubresource(S.tex, bottom, a.data, pitch, o.g),
                 !.ub = bottom * pitch > Len(a.data)]

\* void GraphicsDeviceD3D9::sync(): Issue(D3DISSUE_END), then one GetData(FLUSH).
D3D9_sync(r) == Call(Call(r, "Issue", 0), "GetData", 0)

\* Error GraphicsDeviceD3D9::readTexture(o_buf, bufsize, tex_, width, height, format)
D3D9_readTexture(S, a, o) ==
    LET r0 == Result(S, a)
        s == findOrCreateStagingTexture(S.textures, S.n, a.w, a.h, a.fmt, o.create)
        r1 == WithStaging(r0, s)
        r2 == Call(r1, "GetSurfaceLevel", 0)
        r3 == Call(D3D9_sync(r2), "GetRenderTargetData", s.ret)
        r4 == Call(r3, "LockRect", s.ret)
        res == StagingRes(S, a, o.g)
        wpitch == a.w * GetTexelSize(a.fmt)
        rpitch == ReadSrcPitch(wpitch, res.rowBytes + S.pad)
        locked == MapView(res, res.rowBytes + S.pad, o.g)
        touches == PitchCopyTouches(wpitch, rpitch, a.size, a.h, wpitch)
        oob == PitchCopyOutOfBounds(r0.dst, locked, wpitch, rpitch, a.size, a.h, wpitch)
        copied == PitchCopy(r0.dst, locked, wpitch, rpitch, a.size, a.h, wpitch, o.g)
        swapped == IF a.fmt = "RGBAu8"
                   THEN BGRA_RGBA_conversion(copied, a.size \div 4) ELSE copied
    IN  IF s.ret = 0 THEN Fail(r1, "Unknown")
        ELSE IF a.res = "null" THEN Undefined(r1, o, "GetSurfaceLevel")
        ELSE IF ~o.surf THEN Fail(r2, "Unknown")
        ELSE IF ~o.copy THEN Call(Fail(r3, "Unknown"), "Release", 0)
        ELSE IF ~o.map THEN Call(Fail(r4, "Unknown"), "Release", 0)
        ELSE IF touches /\ a.dst = "null" THEN Undefined(r4, o, "memcpy")
        ELSE IF oob /\ o.ubRet = "Crash" THEN Undefined(r4, o, "memcpy")
        ELSE [Call(Call(Call(r4, "memcpy", s.ret), "UnlockRect", s.ret), "Release", 0)
                 EXCEPT !.dst = swapped, !.ub = oob]

\* Variant: writeTexture reports the driver's success as OK.
D3D9WriteSucceeded_OK(r) == Return(r, "OK")

\* if (SUCCEEDED(hr)) { ret = Error::Unknown; }
D3D9WriteSucceeded(r) == Return(r, "Unknown")

\* The copy into the locked staging surface: bufsize bytes laid out back to
\* back from locked.pBits, red and blue exchanged for RGBAu8 (wpitch is unused).
D3D9StagingWrite(locked, a, wpitch, g) ==
    IF a.fmt = "RGBAu8"
    THEN copy_with_BGRA_RGBA_conversion(locked, a.data, a.size \div 4, g)
    ELSE Memcpy(locked, 0, a.data, 0, a.size, g)

\* Error GraphicsDeviceD3D9::writeTexture(o_tex, width, height, format, buf, bufsize)
D3D9_writeTexture(S, a, o) ==
    LET r0 == Result(S, a)
        psize == GetTexelSize(a.fmt)
        s == findOrCreateStagingTexture(S.textures, S.n, a.w, a.h, a.fmt, o.create)
        r1 == WithStaging(r0, s)
        r2 == Call(r1, "GetSurfaceLevel", 0)
        r3 == Call(r2, "LockRect", s.ret)
        res == [rows |-> a.h, rowBytes |-> a.w * psize]
        same == a.w = S.tex.w /\ a.h = S.tex.h /\ a.fmt = S.tex.fmt
        wpitch == res.rowBytes + S.pad
        locked == Fill(res.rows * wpitch, o.g)
        nbytes == IF a.fmt = "RGBAu8" THEN (a.size \div 4) * 4 ELSE a.size
        oob == OutOfBounds(locked, 0, a.data, 0, nbytes)
        written == D3D9StagingWrite(locked, a, wpitch, o.g)
        r4 == Call(Call(Call(r3, "memcpy", s.ret), "UnlockRect", s.ret),
                   "UpdateSurface", s.ret)
    IN  IF psize = 0 THEN Undefined(r0, o, "divide")
        ELSE IF s.ret = 0 THEN Fail(r1, "Unknown")
        ELSE IF a.res = "null" THEN Undefined(r1, o, "GetSurfaceLevel")
        ELSE IF ~o.surf THEN Fail(r2, "Unknown")
        ELSE IF ~o.map THEN Call(Fail(r3, "Unknown"), "Release", 0)
        ELSE IF nbytes > 0 /\ a.src = "null" THEN Undefined(r3, o, "memcpy")
        ELSE IF oob /\ o.ubRet = "Crash" THEN Undefined(r3, o, "memcpy")
        ELSE IF ~o.copy THEN [Call(Fail(r4, "Unknown"), "Release", 0) EXCEPT !.ub = oob]
        ELSE [Call(D3D9WriteSucceeded(r4), "Release", 0) EXCEPT
                 !.data = IF same THEN Logical(written, res.rows, res.rowBytes, wpitch)
                          ELSE S.tex.data,
                 !.ub = oob]

\* The outcome of a staging buffer request folded into the result.
WithStagingBuffer(r, s) ==
    [r EXCEPT !.buffers = s.buffers, !.nb = s.n, !.relb = s.rel, !.hnd = s.ret.h,
              !.ev = @ \o s.ev, !.failed = @ \/ s.failed]

\* Variant: proc_read of readBuffer returns with the buffer still mapped.
proc_read_buffer_NoUnmap(r, hnd, o) ==
    IF ~o.map THEN Fail(Call(r, "Map", hnd), "Unknown")
    ELSE Call(Call(r, "Map", hnd), "memcpy", hnd)

\* GraphicsDeviceD3D11::readBuffer: the proc_read lambda, on buffer hnd.
proc_read_buffer(r, hnd, o) ==
    IF ~o.map THEN Fail(Call(r, "Map", hnd), "Unknown")
    ELSE Call(Call(Call(r, "Map", hnd), "memcpy", hnd), "Unmap", hnd)

\* Variant: readBuffer without the early return for a size of zero.
ZeroSizeReturns_Never(size) == FALSE

\* if (read_size == 0) { return Error::OK; }
ZeroSizeReturns(size) == size = 0

\* Error GraphicsDeviceD3D11::readBuffer(dst, src_buf_, read_size, type);
\* b is the D3D11_BUFFER_DESC of src_buf_.
D3D11_readBuffer(S, a, b, o) ==
    LET r0 == Result(S, a)
        r1 == Call(r0, "GetDesc", 0)
        s == getStagingBuffer(S.buffers, S.nb, a.kind, a.size, o.create)
        r2 == WithStagingBuffer(r1, s)
    IN  IF ZeroSizeReturns(a.size) THEN Return(r0, "OK")
        ELSE IF a.dst = "null" \/ a.res = "null" THEN Return(r0, "InvalidParameter")
        ELSE IF b.cpuRead THEN proc_read_buffer(r1, 0, o)
        ELSE IF s.ret.h = 0 THEN Undefined(r2, o, "CopyResource")
        ELSE proc_read_buffer(Call(Call(r2, "CopyResource", s.ret.h), "sync", 0),
                              s.ret.h, o)

\* Error GraphicsDeviceD3D11::writeBuffer(dst_buf_, src, write_size, type)
D3D11_writeBuffer(S, a, b, o) ==
    LET r0 == Result(S, a)
        r1 == Call(r0, "GetDesc", 0)
        r2 == Call(r1, "Map", 0)
    IN  IF ZeroSizeReturns(a.size) THEN Return(r0, "OK")
        ELSE IF a.res = "null" \/ a.src = "null" THEN Return(r0, "InvalidParameter")
        ELSE IF b.cpuWrite
        THEN IF ~o.map THEN Fail(r2, "Unknown")
             ELSE Call(Call(r2, "memcpy", 0), "Unmap", 0)
        ELSE Call(r1, "UpdateSubresource", 0)

\* Variant: an unsupported operation answers OK for a request of no bytes.
NotAvailable_ZeroOK(S, a) ==
    Return(Result(S, a), IF a.size = 0 THEN "OK" ELSE "NotAvailable")

\* GraphicsDeviceD3D9::readBuffer / writeBuffer: return Error::NotAvailable;
D3D9_bufferOp(S, a) == Return(Result(S, a), "NotAvailable")

\* GraphicsDeviceVulkan::readTexture / writeTexture / readBuffer / writeBuffer:
\* return Error::NotAvailable;
Vulkan_op(S, a) == Return(Result(S, a), "NotAvailable")

\* The four operations of the engine behind the facade.
readTexture(dev, S, a, o) ==
    CASE dev = "D3D11" -> D3D11_readTexture(S, a, o)
      [] dev = "D3D9" -> D3D9_readTexture(S, a, o)
      [] OTHER -> Vulkan_op(S, a)

writeTexture(dev, S, a, o) ==
    CASE dev = "D3D11" -> D3D11_writeTexture(S, a, o)
      [] dev = "D3D9" -> D3D9_writeTexture(S, a, o)
      [] OTHER -> Vulkan_op(S, a)

readBuffer(dev, S, a, b, o) ==
    CASE dev = "D3D11" -> D3D11_readBuffer(S, a, b, o)
      [] dev = "D3D9" -> D3D9_bufferOp(S, a)
      [] OTHER -> Vulkan_op(S, a)

writeBuffer(dev, S, a, b, o) ==
    CASE dev = "D3D11" -> D3D11_writeBuffer(S, a, b, o)
      [] dev = "D3D9" -> D3D9_bufferOp(S, a)
      [] OTHER -> Vulkan_op(S, a)

(***************************************************************************)
(* Records of the last call.                                               *)
(***************************************************************************)
NoCall == [op |-> "none", ret |-> "none", ev |-> <<>>, failed |-> FALSE, ub |-> FALSE,
           same |-> TRUE]

NoArgs == [w |-> 0, h |-> 0, fmt |-> "Unknown", size |-> 0, kind |-> "Index",
           dst |-> "ptr", res |-> "ptr", src |-> "ptr"]

NoObs == [preSize |-> 0, preHnd |-> 0, hnd |-> 0, rel |-> {}, nNew |-> 0,
          preCap |-> 0, cap |-> 0, othersSame |-> TRUE,
          prevOp |-> "none", prevKind |-> "Index", prevSize |-> 0]

NoTex == [w |-> 0, h |-> 0, fmt |-> "Unknown", cpuRead |-> FALSE, cpuWrite |-> FALSE,
          data |-> <<>>]

NoBuf == [cpuRead |-> FALSE, cpuWrite |-> FALSE]

NoWrite == [done |-> FALSE, valid |-> FALSE, ub |-> FALSE]

NoStagingBuffers == [k \in BufferType |-> [h |-> 0, ByteWidth |-> 0]]

\* No sync() has been called.
NoGpu == [op |-> "none", pc |-> "idle", marker |-> "none", answer |-> "none",
          polls |-> 0, calls |-> 0, hung |-> FALSE]

\* No engine object: nothing created, nothing freed.
NoLife == [state |-> "none", attempt |-> "none", device |-> "null",
           context |-> FALSE, query |-> FALSE, made |-> EmptyMap,
           bufs |-> {}, freed |-> {}, twice |-> FALSE, nullFree |-> FALSE]

\* The engine object after construction on a valid device, query created.
Constructed == [NoLife EXCEPT !.state = "alive", !.attempt = "ptr", !.device = "ptr",
                              !.context = TRUE, !.query = TRUE]

(***************************************************************************)
(* SpecCache: a caller that asks the engine for staging textures.          *)
(* A request names a (width, height, format) whose key is cached, or the   *)
(* first supported one (in the order of CacheRank) whose key is not, or a  *)
(* format without a native counterpart.                                    *)
(***************************************************************************)
CacheFormatSeq == <<"RGBAu8", "Rf32">>

CacheTriples ==
    [w : 1..CacheMaxW, h : 1..CacheMaxH, fmt : Range(CacheFormatSeq)]

CacheRank(t) ==
    ((t.w - 1) * CacheMaxH + (t.h - 1)) * Len(CacheFormatSeq)
      + (CHOOSE i \in 1..Len(CacheFormatSeq) : CacheFormatSeq[i] = t.fmt)

KeyOf(dev, t) == Hash(t.w, t.h, InternalFormat(dev, t.fmt))

CacheRequests(dev, textures) ==
    LET hits == {t \in CacheTriples : KeyOf(dev, t) \in DOMAIN textures}
        miss == CacheTriples \ hits
        first == {t \in miss : \A u \in miss : CacheRank(t) <= CacheRank(u)}
    IN  hits \cup first \cup {[w |-> 1, h |-> 1, fmt |-> "Ru8"]}

InitCache ==
    /\ deviceType \in {"D3D11", "D3D9"}
    /\ padding = 0
    /\ tex = NoTex
    /\ buf = NoBuf
    /\ m_staging_textures = EmptyMap
    /\ m_staging_buffers = NoStagingBuffers
    /\ nTexCreated = 0
    /\ nBufCreated = 0
    /\ released = {}
    /\ cpuSrc = <<>>
    /\ cpuDst = <<>>
    /\ wr = NoWrite
    /\ last = NoCall
    /\ args = NoArgs
    /\ obs = NoObs
    /\ gpu = NoGpu
    /\ life = Constructed

\* One call of getStagingTexture / findOrCreateStagingTexture.
RequestStagingTexture ==
    /\ nTexCreated < MaxTexCreates
    /\ \E t \in CacheRequests(deviceType, m_staging_textures) :
       \E createOK \in CreateOutcomes(InternalFormat(deviceType, t.fmt)) :
         LET r == StagingTexture(deviceType, m_staging_textures, nTexCreated,
                                 t.w, t.h, t.fmt, createOK)
             key == KeyOf(deviceType, t)
         IN  /\ m_staging_textures' = r.textures
             /\ nTexCreated' = r.n
             /\ released' = released \cup r.rel
             /\ last' = [op |-> "getStagingTexture", ret |-> "none", ev |-> r.ev,
                         failed |-> r.failed, ub |-> FALSE,
                         same |-> r.textures = m_staging_textures /\ r.n = nTexCreated]
             /\ args' = [NoArgs EXCEPT !.w = t.w, !.h = t.h, !.fmt = t.fmt]
             /\ obs' = [NoObs EXCEPT
                          !.preSize = Cardinality(DOMAIN m_staging_textures),
                          !.preHnd = IF key \in DOMAIN m_staging_textures
                                     THEN m_staging_textures[key] ELSE 0,
                          !.hnd = r.ret,
                          !.rel = r.rel,
                          !.nNew = r.n - nTexCreated]
    /\ UNCHANGED <<gpu, life, deviceType, padding, tex, buf, m_staging_buffers, nBufCreated,
                   cpuSrc, cpuDst, wr>>

NextCache == RequestStagingTexture

SpecCache == InitCache /\ [][NextCache]_vars

(***************************************************************************)
(* Claims about the staging texture cache (SpecCache).                     *)
(***************************************************************************)
MaxStagingTextures(dev) ==
    IF dev = "D3D11" THEN D3D11MaxStagingTextures ELSE D3D9MaxStagingTextures

IsRequest == last.op = "getStagingTexture"

\* The request found the cache full and its key absent, and created a texture.
FlushingMiss ==
    /\ IsRequest
    /\ obs.preSize = MaxStagingTextures(deviceType)
    /\ obs.preHnd = 0
    /\ obs.nNew = 1

\* C2: a request for a 33rd distinct key, made when the cache holds the 32
\* textures created since it was last empty, releases all 32 and only then
\* creates and inserts the 33rd, which is then the cache's only entry; a handle
\* that was released is never returned again, so a later request for one of the
\* 32 keys finds no entry and creates a new texture (the creation count grows).
C2_FlushBefore33rd ==
    /\ FlushingMiss =>
         /\ Cardinality(obs.rel) = 32
         /\ obs.rel \subseteq released
         /\ Len(last.ev) = 2
         /\ last.ev[1] = Ev("clearStagingTextures", 32)
         /\ last.ev[2].h = obs.hnd
         /\ obs.hnd = nTexCreated
         /\ Range(m_staging_textures) = {obs.hnd}
         /\ DOMAIN m_staging_textures = {KeyOf(deviceType, args)}
    /\ Range(m_staging_textures) \cap released = {}
    /\ (IsRequest /\ obs.hnd # 0) => obs.hnd \notin released
    /\ (IsRequest /\ obs.hnd # 0 /\ obs.preHnd = 0) =>
         (obs.nNew = 1 /\ obs.hnd = nTexCreated)

\* The 33rd texture was created by a request that found 32 cached entries, all
\* of which are now released.
C2_Witness ==
    /\ FlushingMiss
    /\ nTexCreated = 33
    /\ released = 1..32

\* The first key is requested again after the flush and is created anew.
C2_WitnessRecreated ==
    /\ IsRequest
    /\ nTexCreated = 34
    /\ released = 1..32
    /\ args.w = 1 /\ args.h = 1 /\ args.fmt = "RGBAu8"
    /\ obs.nNew = 1
    /\ Cardinality(DOMAIN m_staging_textures) = 2

\* C3: a request whose key is cached at the moment of the call returns the
\* cached handle and creates and releases nothing, at every occupancy.
C3_HitReturnsCached ==
    (IsRequest /\ obs.preHnd # 0) =>
        /\ obs.hnd = obs.preHnd
        /\ obs.nNew = 0
        /\ obs.rel = {}

\* The same, for a cache that holds fewer than 32 entries at the call.
C3_HitBelowCapacity ==
    (IsRequest /\ obs.preHnd # 0 /\ obs.preSize < MaxStagingTextures(deviceType)) =>
        /\ obs.hnd = obs.preHnd
        /\ obs.nNew = 0
        /\ obs.rel = {}
        /\ last.ev = <<>>

C3_WitnessHit ==
    IsRequest /\ obs.preHnd # 0 /\ obs.preSize = 31 /\ obs.hnd = obs.preHnd

\* C19: after any sequence of staging-texture requests the cache holds at
\* most 32 entries, and every entry is a live resource: a handle that was
\* created (never nullptr) and has not been released.
C19_CacheBoundedAndLive ==
    /\ Cardinality(DOMAIN m_staging_textures) <= 32
    /\ Cardinality(DOMAIN m_staging_textures) <= MaxStagingTextures(deviceType)
    /\ Range(m_staging_textures) \subseteq 1..nTexCreated
    /\ Range(m_staging_textures) \cap released = {}

\* A request has created the 32nd entry of the cache.
C19_Witness ==
    /\ IsRequest
    /\ obs.nNew = 1
    /\ Cardinality(DOMAIN m_staging_textures) = 32

\* Requests after a flush have refilled the cache with live textures only.
C19_WitnessAfterFlush ==
    /\ IsRequest
    /\ released # {}
    /\ Cardinality(DOMAIN m_staging_textures) = 3

\* A failed creation has left the cache as it was.
C19_WitnessCreateFailed ==
    /\ IsRequest
    /\ last.failed
    /\ Cardinality(DOMAIN m_staging_textures) = 31

(***************************************************************************)
(* SpecBuf: a caller that asks the D3D11 engine for staging buffers.       *)
(***************************************************************************)
BufSizes ==
    {0, 1} \cup {StagingBufferFloor * k + d : k \in 1..MaxBufMiB, d \in {0, 1}}

\* The kinds the caller asks for.
BufKinds == {"Index", "Compute"}

InitBuf ==
    /\ deviceType = "D3D11"
    /\ padding = 0
    /\ tex = NoTex
    /\ buf = NoBuf
    /\ m_staging_textures = EmptyMap
    /\ m_staging_buffers = NoStagingBuffers
    /\ nTexCreated = 0
    /\ nBufCreated = 0
    /\ released = {}
    /\ cpuSrc = <<>>
    /\ cpuDst = <<>>
    /\ wr = NoWrite
    /\ last = NoCall
    /\ args = NoArgs
    /\ obs = NoObs
    /\ gpu = NoGpu
    /\ life = Constructed

\* One call of getStagingBuffer.
RequestStagingBuffer ==
    /\ nBufCreated < MaxBufCreates
    /\ \E type \in BufKinds, size \in BufSizes, createOK \in BOOLEAN :
         LET r == getStagingBuffer(m_staging_buffers, nBufCreated, type, size, createOK)
         IN  /\ m_staging_buffers' = r.buffers
             /\ nBufCreated' = r.n
             /\ last' = [op |-> "getStagingBuffer", ret |-> "none", ev |-> r.ev,
                         failed |-> r.failed, ub |-> FALSE,
                         same |-> r.buffers = m_staging_buffers /\ r.n = nBufCreated]
             /\ args' = [NoArgs EXCEPT !.kind = type, !.size = size]
             /\ obs' = [NoObs EXCEPT
                          !.preHnd = m_staging_buffers[type].h,
                          !.preCap = Capacity(m_staging_buffers[type]),
                          !.hnd = r.ret.h,
                          !.cap = Capacity(r.buffers[type]),
                          !.rel = r.rel,
                          !.nNew = r.n - nBufCreated,
                          !.othersSame =
                              \A k \in BufferType \ {type} :
                                  r.buffers[k] = m_staging_buffers[k],
                          !.prevOp = last.op,
                          !.prevKind = args.kind,
                          !.prevSize = args.size]
    /\ UNCHANGED <<gpu, life, deviceType, padding, tex, buf, m_staging_textures, nTexCreated,
                   released, cpuSrc, cpuDst, wr>>

NextBuf == RequestStagingBuffer

SpecBuf == InitBuf /\ [][NextBuf]_vars

(***************************************************************************)
(* Claims about the staging buffer slots (SpecBuf).                        *)
(***************************************************************************)
IsBufRequest == last.op = "getStagingBuffer"

\* The call follows a call for the same kind with a smaller size.
LargerThanPrevious ==
    /\ IsBufRequest
    /\ obs.prevOp = "getStagingBuffer"
    /\ obs.prevKind = args.kind
    /\ args.size > obs.prevSize

\* C4 as claimed: a request of S2 that follows a request of a smaller S1 for the
\* same kind (the backend creating what it is asked to) makes a new allocation
\* of capacity at least S2; a request that fits the slot's buffer returns it
\* without allocating.
C4_LargerRequestAllocates ==
    /\ (LargerThanPrevious /\ ~last.failed) =>
          (obs.nNew = 1 /\ obs.cap >= args.size)
    /\ (IsBufRequest /\ obs.preHnd # 0 /\ args.size <= obs.preCap) =>
          (obs.hnd = obs.preHnd /\ obs.nNew = 0)

\* C4 amended: the request of the larger S2 returns a buffer of capacity at
\* least S2, or nullptr with the slot left empty when CreateBuffer fails; it
\* allocates exactly when S2 exceeds the capacity the slot had (capacities are
\* 1 MiB doubled until the request fits); a request that fits the slot's buffer
\* returns that buffer, allocates and releases nothing and makes no backend call.
C4_GrowsOnlyWhenNeeded ==
    /\ LargerThanPrevious =>
          /\ obs.hnd # 0 => (obs.cap >= args.size /\ obs.cap >= StagingBufferFloor)
          /\ obs.hnd = 0 <=> last.failed
          /\ last.failed => (obs.cap = 0 /\ obs.nNew = 0)
          /\ ~last.failed => (obs.nNew = 1 <=> args.size > obs.preCap)
          /\ obs.nNew = 1 => (obs.hnd = nBufCreated /\ obs.hnd # obs.preHnd)
    /\ (IsBufRequest /\ obs.preHnd # 0 /\ args.size <= obs.preCap) =>
          /\ obs.hnd = obs.preHnd
          /\ obs.cap = obs.preCap
          /\ obs.nNew = 0
          /\ obs.rel = {}
          /\ last.ev = <<>>

\* S1 = 1 MiB, then S2 = 1 MiB + 1 replaces the buffer by one of 2 MiB.
C4_WitnessGrow ==
    /\ LargerThanPrevious
    /\ obs.prevSize = StagingBufferFloor
    /\ args.size = StagingBufferFloor + 1
    /\ obs.preCap = StagingBufferFloor
    /\ obs.cap = 2 * StagingBufferFloor
    /\ obs.nNew = 1
    /\ obs.rel = {obs.preHnd}

\* C5: the capacity of a slot never decreases, whatever CreateBuffer answers,
\* and a request for one kind leaves the slots of the other kinds unchanged.
C5_CapacityNeverDecreases ==
    IsBufRequest => (obs.cap >= obs.preCap /\ obs.othersSame)

(***************************************************************************)
(* Spec: a caller that reads and writes its texture, or (holding none)     *)
(* buffers, through the engine.  The arguments of a texture call describe  *)
(* the texture or name the Unknown format; every pointer argument is valid *)
(* or null; each backend call of an operation may fail.  cpuSrc, cpuDst    *)
(* and wr follow consecutive texture calls: a buffer call resets them.     *)
(***************************************************************************)
Ptrs == {"ptr", "null"}

TexFormats == {"Rf16", "RGBAu8"}

\* The (width, height) of the textures the caller may hold.
TexShapes == {<<1, 2>>}

\* The first byte of the source buffers the caller may write from.
SrcBases == {1, 2}

GarbageByte == 255

\* How a call that ran into undefined behaviour ends: the process faults, or
\* the call returns as if nothing had happened.
UBOutcomes == {"Crash", "OK"}

\* The CPU source buffers the caller writes from: n distinct bytes.
Pattern(n, base) == [i \in 1..n |-> i - 1 + base]

AllSucceed == [create |-> TRUE, surf |-> TRUE, copy |-> TRUE, map |-> TRUE]

\* What the backend answers during a call.  A call ends at the first backend
\* call that fails, so at most one answer is a failure.
BackendAnswers(calls) ==
    {AllSucceed} \cup {[AllSucceed EXCEPT ![c] = FALSE] : c \in calls}

Outcomes(dev, fmt) ==
    LET createFails == IF FALSE \in CreateOutcomes(InternalFormat(dev, fmt))
                       THEN {"create"} ELSE {}
        calls == CASE dev = "D3D11" -> {"create", "map"}
                   [] dev = "D3D9" -> {"create", "surf", "copy", "map"}
                   [] OTHER -> {}
        answers == IF TRUE \in CreateOutcomes(InternalFormat(dev, fmt))
                   THEN BackendAnswers(calls)
                   ELSE {[AllSucceed EXCEPT !.create = FALSE]}
    IN  {[create |-> b.create, surf |-> b.surf, copy |-> b.copy, map |-> b.map,
          g |-> GarbageByte, ubRet |-> u] :
            b \in answers, u \in IF dev = "Vulkan" THEN {"Crash"} ELSE UBOutcomes}

BufOutcomes(dev) ==
    {[create |-> b.create, surf |-> b.surf, copy |-> b.copy, map |-> b.map,
      g |-> GarbageByte, ubRet |-> u] :
        b \in BackendAnswers(IF dev = "D3D11" THEN {"create", "map"} ELSE {}),
        u \in IF dev = "D3D11" THEN UBOutcomes ELSE {"Crash"}}

Engine == [tex |-> tex, textures |-> m_staging_textures, n |-> nTexCreated,
           buffers |-> m_staging_buffers, nb |-> nBufCreated, pad |-> padding]

\* The textures the caller may hold.
Textures(dev) ==
    {[w |-> wh[1], h |-> wh[2], fmt |-> fmt, cpuRead |-> cpuRead, cpuWrite |-> cpuWrite,
      data |-> Fill(wh[1] * wh[2] * GetTexelSize(fmt), 0)] :
        wh \in TexShapes, fmt \in TexFormats,
        cpuRead \in IF dev = "D3D11" THEN BOOLEAN ELSE {FALSE},
        cpuWrite \in IF dev = "D3D11" THEN BOOLEAN ELSE {FALSE}}

\* D3D11_USAGE / CPUAccessFlags of a buffer: a flag only D3D11 resources carry.
UsageFlags == IF deviceType = "D3D11" THEN BOOLEAN ELSE {FALSE}

Init ==
    /\ deviceType \in {"D3D11", "D3D9", "Vulkan"}
    /\ tex \in Textures(deviceType) \cup {NoTex}
    /\ padding \in IF deviceType = "Vulkan" \/ tex = NoTex THEN {0} ELSE 0..MaxPad
    /\ buf = NoBuf
    /\ m_staging_textures = EmptyMap
    /\ m_staging_buffers = NoStagingBuffers
    /\ nTexCreated = 0
    /\ nBufCreated = 0
    /\ released = {}
    /\ cpuSrc = <<>>
    /\ cpuDst = <<>>
    /\ wr = NoWrite
    /\ last = NoCall
    /\ args = NoArgs
    /\ obs = NoObs
    /\ gpu = NoGpu
    /\ life = Constructed

Running == last.ret # "Crash"

\* The caller holds a texture, or none.
HoldsTexture == tex # NoTex

\* On D3D11, whose buffer path keeps staging buffers, the buffer calls come
\* from a caller that holds no texture; elsewhere from every caller.
BufferCaller == ~HoldsTexture \/ deviceType # "D3D11"

\* The formats the caller can name in a texture call.
ArgFormats == {tex.fmt, "Unknown"}

\* The call was given valid pointers and the texture's own format, and no
\* backend call failed in it.
Valid(a, r) ==
    /\ a.dst = "ptr" /\ a.res = "ptr" /\ a.src = "ptr"
    /\ a.fmt = tex.fmt
    /\ ~r.failed

\* The call left the engine and the texture as it found them.
Same(r) ==
    /\ r.data = tex.data
    /\ r.textures = m_staging_textures /\ r.n = nTexCreated /\ r.rel = {}
    /\ r.buffers = m_staging_buffers /\ r.nb = nBufCreated /\ r.relb = {}

LastOf(op, r) ==
    [op |-> op, ret |-> r.ret, ev |-> r.ev, failed |-> r.failed, ub |-> r.ub,
     same |-> Same(r)]

ArgsOf(a) ==
    [w |-> a.w, h |-> a.h, fmt |-> a.fmt, size |-> a.size, kind |-> a.kind,
     dst |-> a.dst, res |-> a.res, src |-> a.src]

\* What a texture call saw of and did to the staging texture cache.
TexObs(a, r) ==
    LET key == Hash(a.w, a.h, InternalFormat(deviceType, a.fmt))
    IN  [NoObs EXCEPT
           !.preSize = Cardinality(DOMAIN m_staging_textures),
           !.preHnd = IF key \in DOMAIN m_staging_textures
                      THEN m_staging_textures[key] ELSE 0,
           !.hnd = r.hnd,
           !.rel = r.rel,
           !.nNew = r.n - nTexCreated]

\* What a buffer call saw of and did to the staging buffer slots.
BufObs(a, r) ==
    [NoObs EXCEPT
       !.preHnd = m_staging_buffers[a.kind].h,
       !.preCap = Capacity(m_staging_buffers[a.kind]),
       !.hnd = r.hnd,
       !.cap = Capacity(r.buffers[a.kind]),
       !.rel = r.relb,
       !.nNew = r.nb - nBufCreated,
       !.othersSame = \A k \in BufferType \ {a.kind} :
                          r.buffers[k] = m_staging_buffers[k]]

\* The engine and resource state a call leaves.
Leaves(r) ==
    /\ tex' = [tex EXCEPT !.data = r.data]
    /\ m_staging_textures' = r.textures
    /\ nTexCreated' = r.n
    /\ released' = released \cup r.rel
    /\ m_staging_buffers' = r.buffers
    /\ nBufCreated' = r.nb

\* readTexture(dst, dst_size, tex, width, height, format) into a zeroed buffer
\* of dst_size = width * height * texel size bytes.
ReadTexture ==
    /\ Running
    /\ HoldsTexture
    /\ \E dst \in Ptrs, res \in Ptrs, fmt \in ArgFormats :
       \E o \in Outcomes(deviceType, fmt) :
         LET size == tex.w * tex.h * GetTexelSize(fmt)
             a == [dst |-> dst, res |-> res, src |-> "ptr", w |-> tex.w, h |-> tex.h,
                   fmt |-> fmt, size |-> size, kind |-> "Index",
                   data |-> IF dst = "ptr" THEN Fill(size, 0) ELSE <<>>]
         IN  \E r \in {readTexture(deviceType, Engine, a, o)} :
             /\ Leaves(r)
             /\ cpuDst' = r.dst
             /\ last' = LastOf("readTexture", r)
             /\ args' = ArgsOf(a)
             /\ obs' = TexObs(a, r)
    /\ UNCHANGED <<gpu, life, deviceType, padding, buf, cpuSrc, wr>>

\* writeTexture(tex, width, height, format, src, src_size) from a buffer of
\* src_size = width * height * texel size distinct bytes.
WriteTexture ==
    /\ Running
    /\ HoldsTexture
    /\ \E res \in Ptrs, src \in Ptrs, fmt \in ArgFormats, base \in SrcBases :
       \E o \in Outcomes(deviceType, fmt) :
         LET size == tex.w * tex.h * GetTexelSize(fmt)
             a == [dst |-> "ptr", res |-> res, src |-> src, w |-> tex.w, h |-> tex.h,
                   fmt |-> fmt, size |-> size, kind |-> "Index",
                   data |-> IF src = "ptr" THEN Pattern(size, base) ELSE <<>>]
         IN  \E r \in {writeTexture(deviceType, Engine, a, o)} :
             /\ Leaves(r)
             /\ cpuSrc' = a.data
             /\ cpuDst' = <<>>
             /\ wr' = [done |-> TRUE, valid |-> Valid(a, r), ub |-> r.ub]
             /\ last' = LastOf("writeTexture", r)
             /\ args' = ArgsOf(a)
             /\ obs' = TexObs(a, r)
    /\ UNCHANGED <<gpu, life, deviceType, padding, buf>>

BufArgs(dst, res, src, size, kind) ==
    [dst |-> dst, res |-> res, src |-> src, w |-> 0, h |-> 0, fmt |-> "Unknown",
     size |-> size, kind |-> kind, data |-> <<>>]

\* readBuffer(dst, src_buf, read_size, type); the buffer is CPU-readable or not.
ReadBuffer ==
    /\ Running
    /\ BufferCaller
    /\ nBufCreated < MaxBufCreates
    /\ \E dst \in Ptrs, res \in Ptrs, size \in {0, 1}, kind \in BufKinds :
       \E cpuRead \in UsageFlags, o \in BufOutcomes(deviceType) :
         LET a == BufArgs(dst, res, "ptr", size, kind)
             b == [cpuRead |-> cpuRead, cpuWrite |-> FALSE]
         IN  \E r \in {readBuffer(deviceType, Engine, a, b, o)} :
             /\ Leaves(r)
             /\ buf' = b
             /\ last' = LastOf("readBuffer", r)
             /\ args' = ArgsOf(a)
             /\ obs' = BufObs(a, r)
             /\ cpuSrc' = <<>>
             /\ cpuDst' = <<>>
             /\ wr' = NoWrite
    /\ UNCHANGED <<gpu, life, deviceType, padding>>

\* writeBuffer(dst_buf, src, write_size, type); the buffer is CPU-writable or not.
WriteBuffer ==
    /\ Running
    /\ BufferCaller
    /\ \E res \in Ptrs, src \in Ptrs, size \in {0, 1}, kind \in BufKinds :
       \E cpuWrite \in UsageFlags, o \in BufOutcomes(deviceType) :
         LET a == BufArgs("ptr", res, src, size, kind)
             b == [cpuRead |-> FALSE, cpuWrite |-> cpuWrite]
         IN  \E r \in {writeBuffer(deviceType, Engine, a, b, o)} :
             /\ Leaves(r)
             /\ buf' = b
             /\ last' = LastOf("writeBuffer", r)
             /\ args' = ArgsOf(a)
             /\ obs' = BufObs(a, r)
             /\ cpuSrc' = <<>>
             /\ cpuDst' = <<>>
             /\ wr' = NoWrite
    /\ UNCHANGED <<gpu, life, deviceType, padding>>

Next == ReadTexture \/ WriteTexture \/ ReadBuffer \/ WriteBuffer

Spec == Init /\ [][Next]_vars

(***************************************************************************)
(* Claims about the four operations (Spec).                                *)
(***************************************************************************)
IsTextureOp == last.op \in {"readTexture", "writeTexture"}

IsBufferOp == last.op \in {"readBuffer", "writeBuffer"}

\* The last call was given valid pointers and the texture's own format, and no
\* backend call failed in it.
ValidCall ==
    /\ args.dst = "ptr" /\ args.res = "ptr" /\ args.src = "ptr"
    /\ args.fmt = tex.fmt
    /\ ~last.failed

\* A readTexture directly after a writeTexture, same texture and arguments,
\* both given valid pointers and a supported format, no backend call failing.
RoundTrip ==
    /\ deviceType \in {"D3D11", "D3D9"}
    /\ last.op = "readTexture"
    /\ ValidCall
    /\ wr.done
    /\ wr.valid

\* C1: writeTexture followed by readTexture on the same texture with the same
\* (width, height, format) leaves the destination buffer byte-identical to the
\* source buffer, whatever row pitch >= width * texel size the backend maps
\* with, on the mappable and on the staging path of D3D11 and D3D9; neither
\* call touches memory outside the buffers it was given.
C1_RoundTripIdentity ==
    RoundTrip =>
        /\ ~wr.ub
        /\ ~last.ub
        /\ cpuDst = cpuSrc

\* C6 as stated: on every backend a readBuffer or writeBuffer of size zero
\* returns OK and makes no backend call, allocation or memory access.
C6_ZeroSizeOKEverywhere ==
    (IsBufferOp /\ args.size = 0) =>
        /\ last.ret = "OK"
        /\ last.ev = <<>>
        /\ last.same

\* C6: a readBuffer or writeBuffer of size zero makes no backend call (no map,
\* copy or staging allocation), touches no memory and leaves the engine as it
\* was, whatever the other arguments are, null pointers included; it returns
\* OK on D3D11 and NotAvailable on D3D9 and Vulkan.
C6_ZeroSizeTouchesNothing ==
    (IsBufferOp /\ args.size = 0) =>
        /\ last.ret = (IF deviceType = "D3D11" THEN "OK" ELSE "NotAvailable")
        /\ last.ev = <<>>
        /\ ~last.failed
        /\ ~last.ub
        /\ last.same
        /\ obs.nNew = 0 /\ obs.rel = {} /\ obs.cap = obs.preCap /\ obs.othersSame

\* A D3D11 readBuffer of size zero with a null buffer and a null destination
\* has returned OK.
C6_Witness ==
    /\ deviceType = "D3D11"
    /\ last.op = "readBuffer"
    /\ args.size = 0
    /\ args.res = "null" /\ args.dst = "null"
    /\ last.ret = "OK"

\* The last call is one the backend does not support.
Unsupported ==
    \/ deviceType = "Vulkan" /\ (IsTextureOp \/ IsBufferOp)
    \/ deviceType = "D3D9" /\ IsBufferOp

\* C7: the four operations on Vulkan, and readBuffer and writeBuffer on D3D9,
\* return NotAvailable for every argument combination and in every state, make
\* no backend call and change no engine state.
C7_UnsupportedIsNotAvailable ==
    Unsupported =>
        /\ last.ret = "NotAvailable"
        /\ last.ev = <<>>
        /\ ~last.failed
        /\ ~last.ub
        /\ last.same
        /\ obs.nNew = 0 /\ obs.rel = {}

\* A D3D9 writeBuffer with valid pointers and a size of one byte, made while
\* the staging texture cache holds a texture, has returned NotAvailable.
C7_Witness ==
    /\ deviceType = "D3D9"
    /\ last.op = "writeBuffer"
    /\ args.res = "ptr" /\ args.src = "ptr" /\ args.size = 1
    /\ m_staging_textures # EmptyMap
    /\ last.ret = "NotAvailable"

\* A Vulkan readTexture with valid pointers has returned NotAvailable.
C7_WitnessVulkan ==
    /\ deviceType = "Vulkan"
    /\ last.op = "readTexture"
    /\ args.res = "ptr" /\ args.dst = "ptr"
    /\ last.ret = "NotAvailable"

\* A pointer argument of the last call is null (the destination of a read,
\* the source of a write, or the resource handle).
NullArgument ==
    \/ args.res = "null"
    \/ last.op \in {"readTexture", "readBuffer"} /\ args.dst = "null"
    \/ last.op \in {"writeTexture", "writeBuffer"} /\ args.src = "null"

\* C8: a readTexture, writeTexture, readBuffer or writeBuffer on D3D11 or D3D9
\* in which a pointer argument is null returns InvalidParameter before any
\* backend call is made and without dereferencing the pointer.
C8_NullIsInvalidParameter ==
    (deviceType \in {"D3D11", "D3D9"} /\ (IsTextureOp \/ IsBufferOp) /\ NullArgument) =>
        /\ last.ret = "InvalidParameter"
        /\ last.ev = <<>>
        /\ ~last.ub

\* C9: an operation in which a backend call failed (map or lock, staging
\* texture or staging buffer creation, copy) returns an error other than OK.
C9_FailureIsReported ==
    ((IsTextureOp \/ IsBufferOp) /\ last.failed) => last.ret # "OK"

\* The events of the last call name the backend call e.
Made(e) == \E i \in 1..Len(last.ev) : last.ev[i].e = e

\* C10: D3D9 writeTexture returns Unknown and never OK for every outcome of
\* the staging lookup, GetSurfaceLevel, LockRect and UpdateSurface, the one
\* where all succeed included: with valid pointers and a supported format the
\* call stays within defined behaviour and returns Unknown.
C10_D3D9WriteReturnsUnknown ==
    (deviceType = "D3D9" /\ last.op = "writeTexture") =>
        /\ (args.res = "ptr" /\ args.src = "ptr" /\ args.fmt = tex.fmt) =>
               (~last.ub /\ last.ret = "Unknown")
        /\ ~last.ub => last.ret = "Unknown"

\* A D3D9 writeTexture in which every backend call succeeded, UpdateSurface
\* included, and the texture took the written bytes, has returned Unknown.
C10_Witness ==
    /\ deviceType = "D3D9"
    /\ last.op = "writeTexture"
    /\ ValidCall
    /\ ~last.ub
    /\ Made("UpdateSurface")
    /\ padding = 0
    /\ tex.data = cpuSrc
    /\ last.ret = "Unknown"

(***************************************************************************)
(* Claims about the order of the backend calls inside one operation (Spec). *)
(***************************************************************************)
\* The positions in the last call's events of the backend calls named in es.
Positions(es) == {i \in 1..Len(last.ev) : last.ev[i].e \in es}

\* GPU-side copy of the source into the staging resource.
StagingCopies == Positions({"CopyResource", "GetRenderTargetData"})

\* sync(): as one call on D3D11, as its Issue and GetData on D3D9.
SyncStarts == Positions({"sync", "Issue"})

SyncReturns == Positions({"sync", "GetData"})

\* Map / LockRect of a staging resource (staging handles are not 0).
StagingMaps == {i \in Positions({"Map", "LockRect"}) : last.ev[i].h # 0}

\* The last call is a read that copied the source into a staging resource and
\* mapped the staging resource, within defined behaviour.
StagedRead ==
    /\ last.op \in {"readTexture", "readBuffer"}
    /\ ~last.ub
    /\ StagingCopies # {}
    /\ StagingMaps # {}

\* C11: in every read that goes through a staging resource the GPU-side copy
\* into the staging resource comes first, then sync(), then the map or lock of
\* the staging resource: sync() is not issued before the copy and the map does
\* not happen before sync() has returned.
C11_CopyThenSyncThenMap ==
    StagedRead =>
        /\ SyncStarts # {} /\ SyncReturns # {}
        /\ \A c \in StagingCopies, s \in SyncStarts : c < s
        /\ \A s \in SyncReturns, k \in StagingMaps : s < k

(***************************************************************************)
(* SpecSync: sync() step by step, called by the user or from inside a      *)
(* staged read, against a GPU that retires the end-of-work marker at some  *)
(* moment of its own, or (hung) never.                                     *)
(***************************************************************************)
\* The polls counted of one sync() (the count saturates) and the calls made.
MaxPolls == 3
MaxSyncCalls == 2

\* Everything but the sync() in progress.
restOfSync == <<deviceType, padding, tex, buf, m_staging_textures, m_staging_buffers,
                nTexCreated, nBufCreated, released, cpuSrc, cpuDst, wr, last, args,
                obs, life>>

\* The callers of sync(): the user, and the reads that go through a staging
\* resource (D3D9 has no buffer path).
SyncCallers(dev) ==
    IF dev = "D3D11" THEN {"sync", "readTexture", "readBuffer"}
    ELSE {"sync", "readTexture"}

\* What GetData answers: S_OK once the marker has retired, S_FALSE while it is
\* pending, or a failure of the device.
GetDataAnswers(marker) ==
    (IF marker = "retired" THEN {"S_OK"} ELSE {"S_FALSE"}) \cup {"DEVICE_LOST"}

\* while (m_context->GetData(m_query_event, nullptr, 0, 0) == S_FALSE) { sleep }
D3D11_KeepsPolling(answer) == answer = "S_FALSE"

\* auto hr = m_query_event->GetData(nullptr, 0, D3DGETDATA_FLUSH);
\* if (hr != S_OK) { gdLog("GetData() failed\n"); }   -- no loop
D3D9_KeepsPolling(answer) == FALSE

KeepsPolling(dev, answer) ==
    IF dev = "D3D11" THEN D3D11_KeepsPolling(answer) ELSE D3D9_KeepsPolling(answer)

InitSync ==
    /\ deviceType \in {"D3D11", "D3D9"}
    /\ padding = 0
    /\ tex = NoTex
    /\ buf = NoBuf
    /\ m_staging_textures = EmptyMap
    /\ m_staging_buffers = NoStagingBuffers
    /\ nTexCreated = 0
    /\ nBufCreated = 0
    /\ released = {}
    /\ cpuSrc = <<>>
    /\ cpuDst = <<>>
    /\ wr = NoWrite
    /\ last = NoCall
    /\ args = NoArgs
    /\ obs = NoObs
    /\ gpu \in {[NoGpu EXCEPT !.hung = b] : b \in BOOLEAN}
    /\ life = Constructed

\* A caller reaches its call of sync().
EnterSync ==
    /\ gpu.pc \in {"idle", "returned"}
    /\ gpu.calls < MaxSyncCalls
    /\ \E op \in SyncCallers(deviceType) :
         gpu' = [gpu EXCEPT !.op = op, !.pc = "entered", !.marker = "none",
                            !.answer = "none", !.polls = 0, !.calls = @ + 1]
    /\ UNCHANGED restOfSync

\* m_context->End(m_query_event) / m_query_event->Issue(D3DISSUE_END)
IssueMarker ==
    /\ gpu.pc = "entered"
    /\ gpu' = [gpu EXCEPT !.pc = "polling", !.marker = "pending"]
    /\ UNCHANGED restOfSync

\* The GPU reaches the marker.
GpuRetires ==
    /\ gpu.marker = "pending"
    /\ ~gpu.hung
    /\ gpu' = [gpu EXCEPT !.marker = "retired"]
    /\ UNCHANGED restOfSync

\* One GetData, and the loop test (D3D11) or none (D3D9) after it.
PollMarker ==
    /\ gpu.pc = "polling"
    /\ \E answer \in GetDataAnswers(gpu.marker) :
         gpu' = [gpu EXCEPT
                   !.answer = answer,
                   !.polls = IF @ < MaxPolls THEN @ + 1 ELSE @,
                   !.pc = IF KeepsPolling(deviceType, answer) THEN "polling" ELSE "synced"]
    /\ UNCHANGED restOfSync

\* sync() has returned; the caller (a read maps its staging resource, copies
\* and unmaps) returns.
ReturnFromSync ==
    /\ gpu.pc = "synced"
    /\ gpu' = [gpu EXCEPT !.pc = "returned"]
    /\ UNCHANGED restOfSync

NextSync == EnterSync \/ IssueMarker \/ GpuRetires \/ PollMarker \/ ReturnFromSync

SpecSync == InitSync /\ [][NextSync]_vars

(***************************************************************************)
(* Claims about sync() (SpecSync).                                         *)
(***************************************************************************)
SyncReturned == gpu.pc \in {"synced", "returned"}

\* C12: sync() returns only in a state where the marker it issued has been
\* retired by the GPU; while the backend reports the marker pending, sync()
\* keeps polling and does not return (D3D11 and D3D9).
C12_ReturnsOnlyWhenRetired ==
    SyncReturned => (gpu.marker = "retired" /\ gpu.answer = "S_OK")

\* C13: sync() has no timeout: with a GPU that never retires the marker,
\* neither sync() nor a read operation that calls it ever returns.
C13_HungGpuNeverReturns ==
    (gpu.hung /\ gpu.op # "none") => ~SyncReturned

(***************************************************************************)
(* Claims about the channel order of D3D9 RGBAu8 textures (Spec).          *)
(***************************************************************************)
\* The bytes of x with the first and third byte of every 4-byte texel exchanged.
SwapRB(x) ==
    [i \in 1..Len(x) |->
        CASE (i - 1) % 4 = 0 -> x[i + 2]
          [] (i - 1) % 4 = 2 -> x[i - 2]
          [] OTHER -> x[i]]

\* The last call is a D3D9 `op` on the RGBAu8 texture with valid pointers, no
\* backend call failing.
RGBA8Call(op) ==
    /\ deviceType = "D3D9"
    /\ last.op = op
    /\ args.fmt = "RGBAu8"
    /\ ValidCall
    /\ ~last.ub

\* The first n bytes of x.
Prefix(x, n) == [i \in 1..n |-> x[i]]

\* C14: on D3D9 with RGBAu8, readTexture returns every texel of the backend's
\* bytes with red and blue exchanged, green and alpha in place; writeTexture
\* stores every texel of the source with the same exchange (whatever the pitch
\* of the locked surface) and the texture holds the exchanged bytes when the
\* pitch is the row size; the write exchange followed by the read exchange is
\* the identity on every texel.
C14_D3D9SwapsRedBlue ==
    /\ RGBA8Call("readTexture") => cpuDst = SwapRB(tex.data)
    /\ RGBA8Call("writeTexture") =>
         /\ padding = 0 => tex.data = SwapRB(cpuSrc)
         /\ \A p \in 0..MaxPad :
              LET a == [fmt |-> args.fmt, size |-> args.size, data |-> cpuSrc,
                        w |-> args.w, h |-> args.h]
                  wpitch == args.w * 4 + p
                  locked == Fill(args.h * wpitch, 0)
              IN  Prefix(D3D9StagingWrite(locked, a, wpitch, GarbageByte), args.size)
                      = SwapRB(cpuSrc)
         /\ BGRA_RGBA_conversion(
                copy_with_BGRA_RGBA_conversion(Fill(args.size, 0), cpuSrc,
                                               args.size \div 4, GarbageByte),
                args.size \div 4) = cpuSrc
         /\ SwapRB(SwapRB(cpuSrc)) = cpuSrc

\* A D3D9 readTexture of the RGBAu8 texture, after a write of distinct bytes,
\* has returned bytes that differ from the backend's.
C14_Witness ==
    /\ RGBA8Call("readTexture")
    /\ wr.done /\ wr.valid
    /\ padding = 0
    /\ cpuDst = cpuSrc
    /\ cpuDst # tex.data
    /\ cpuDst[1] = tex.data[3] /\ cpuDst[3] = tex.data[1]
    /\ cpuDst[2] = tex.data[2] /\ cpuDst[4] = tex.data[4]

\* A D3D9 writeTexture of the RGBAu8 texture has stored the exchanged bytes.
C14_WitnessWrite ==
    /\ RGBA8Call("writeTexture")
    /\ padding = 0
    /\ tex.data = SwapRB(cpuSrc)
    /\ tex.data # cpuSrc

(***************************************************************************)
(* SpecLife: the engine object from its factory to its destructor, with    *)
(* staging texture and staging buffer requests in between.                 *)
(***************************************************************************)
\* GraphicsDeviceD3D11::GraphicsDeviceD3D11(device); queryOK is the outcome of
\* CreateQuery.
D3D11_Constructor(device, queryOK) ==
    [NoLife EXCEPT !.state = "alive", !.attempt = device, !.device = device,
                   !.context = (device # "null"),
                   !.query = (device # "null" /\ queryOK)]

\* GraphicsDevice* CreateGraphicsDeviceD3D11(void *device)
CreateGraphicsDeviceD3D11(device, queryOK) ==
    IF device = "null" THEN [NoLife EXCEPT !.attempt = device]
    ELSE D3D11_Constructor(device, queryOK)

\* GraphicsDeviceD3D9::GraphicsDeviceD3D9(device)
D3D9_Constructor(device, queryOK) ==
    [NoLife EXCEPT !.state = "alive", !.attempt = device, !.device = device,
                   !.query = (device # "null" /\ queryOK)]

\* GraphicsDevice* CreateGraphicsDeviceD3D9(void *device)
CreateGraphicsDeviceD3D9(device, queryOK) == D3D9_Constructor(device, queryOK)

\* The resources released so far, after the set rel of one kind is released.
Freeing(L, kind, rel) ==
    [L EXCEPT !.freed = @ \cup {<<kind, h>> : h \in rel},
              !.twice = @ \/ \E h \in rel : <<kind, h>> \in L.freed]

\* void GraphicsDeviceD3D11::clearStagingBuffers()
clearStagingBuffers(buffers) ==
    [buffers |-> NoStagingBuffers,
     rel |-> {buffers[k].h : k \in BufferType} \ {0}]

\* GraphicsDeviceD3D11::~GraphicsDeviceD3D11(); m_query_event->Release() is
\* called whenever m_context is set, whether or not the query was created.
D3D11_Destructor(L, textures, buffers) ==
    LET t == clearStagingTextures(textures)
        b == clearStagingBuffers(buffers)
        L1 == Freeing(Freeing(L, "tex", t.rel), "buf", b.rel)
        L2 == IF ~L1.context THEN L1
              ELSE IF L1.query THEN Freeing([L1 EXCEPT !.context = FALSE], "query", {0})
              ELSE [L1 EXCEPT !.context = FALSE, !.nullFree = TRUE]
    IN  [life |-> [L2 EXCEPT !.state = "destroyed"],
         textures |-> t.textures, buffers |-> b.buffers, rel |-> t.rel]

\* GraphicsDeviceD3D9::~GraphicsDeviceD3D9(): clearStagingTextures() only.
D3D9_Destructor(L, textures, buffers) ==
    LET t == clearStagingTextures(textures)
        L1 == Freeing(L, "tex", t.rel)
    IN  [life |-> [L1 EXCEPT !.state = "destroyed"],
         textures |-> t.textures, buffers |-> buffers, rel |-> t.rel]

\* The (width, height, format) requested of the cache: two shapes whose
\* width + (height << 16) agree, in two formats, and an unsupported format.
LifeTriples ==
    {[w |-> 1, h |-> 2, fmt |-> "RGBAu8"], [w |-> 65537, h |-> 1, fmt |-> "RGBAu8"],
     [w |-> 1, h |-> 2, fmt |-> "Rf16"], [w |-> 1, h |-> 1, fmt |-> "Ru8"]}

LifeBufSizes == {1, StagingBufferFloor + 1}

InitLife ==
    /\ deviceType \in {"D3D11", "D3D9"}
    /\ padding = 0
    /\ tex = NoTex
    /\ buf = NoBuf
    /\ m_staging_textures = EmptyMap
    /\ m_staging_buffers = NoStagingBuffers
    /\ nTexCreated = 0
    /\ nBufCreated = 0
    /\ released = {}
    /\ cpuSrc = <<>>
    /\ cpuDst = <<>>
    /\ wr = NoWrite
    /\ last = NoCall
    /\ args = NoArgs
    /\ obs = NoObs
    /\ gpu = NoGpu
    /\ life = NoLife

Alive == life.state = "alive"

\* CreateGraphicsDeviceD3D11(device) / CreateGraphicsDeviceD3D9(device)
CreateEngine ==
    /\ life.state = "none"
    /\ \E device \in Ptrs, queryOK \in BOOLEAN :
         life' = IF deviceType = "D3D11"
                 THEN CreateGraphicsDeviceD3D11(device, queryOK)
                 ELSE CreateGraphicsDeviceD3D9(device, queryOK)
    /\ last' = [NoCall EXCEPT !.op = "create"]
    /\ UNCHANGED <<gpu, deviceType, padding, tex, buf, m_staging_textures,
                   m_staging_buffers, nTexCreated, nBufCreated, released, cpuSrc,
                   cpuDst, wr, args, obs>>

\* One call of getStagingTexture / findOrCreateStagingTexture on the engine.
\* On an engine built on a null device the creation dereferences m_device.
LifeRequestTexture ==
    /\ Alive
    /\ \E t \in LifeTriples, u \in UBOutcomes :
       \E createOK \in CreateOutcomes(InternalFormat(deviceType, t.fmt)) :
         LET fmt == InternalFormat(deviceType, t.fmt)
             key == Hash(t.w, t.h, fmt)
             r == StagingTexture(deviceType, m_staging_textures, nTexCreated,
                                 t.w, t.h, t.fmt, createOK)
             creates == \E i \in 1..Len(r.ev) :
                            r.ev[i].e \in {"CreateTexture2D", "CreateOffscreenPlainSurface"}
             undefined == life.device = "null" /\ creates
             q == IF undefined
                  THEN [r EXCEPT !.textures = m_staging_textures, !.n = nTexCreated,
                                 !.ret = 0, !.failed = TRUE]
                  ELSE r
             made == IF q.n > nTexCreated
                     THEN Insert(life.made, q.n, [w |-> t.w, h |-> t.h, fmt |-> fmt])
                     ELSE life.made
         IN  /\ m_staging_textures' = q.textures
             /\ nTexCreated' = q.n
             /\ released' = released \cup q.rel
             /\ life' = [Freeing(life, "tex", q.rel) EXCEPT
                           !.made = made,
                           !.state = IF undefined /\ u = "Crash" THEN "Crash" ELSE @]
             /\ last' = [op |-> "getStagingTexture", ret |-> "none", ev |-> q.ev,
                         failed |-> q.failed, ub |-> undefined,
                         same |-> q.textures = m_staging_textures /\ q.n = nTexCreated]
             /\ args' = [NoArgs EXCEPT !.w = t.w, !.h = t.h, !.fmt = t.fmt]
             /\ obs' = [NoObs EXCEPT
                          !.preSize = Cardinality(DOMAIN m_staging_textures),
                          !.preHnd = IF key \in DOMAIN m_staging_textures
                                     THEN m_staging_textures[key] ELSE 0,
                          !.hnd = q.ret,
                          !.rel = q.rel,
                          !.nNew = q.n - nTexCreated]
    /\ UNCHANGED <<gpu, deviceType, padding, tex, buf, m_staging_buffers, nBufCreated,
                   cpuSrc, cpuDst, wr>>

\* One call of getStagingBuffer on the D3D11 engine.
LifeRequestBuffer ==
    /\ Alive
    /\ deviceType = "D3D11"
    /\ nBufCreated < MaxBufCreates
    /\ \E type \in BufKinds, size \in LifeBufSizes, createOK \in BOOLEAN :
         LET r == getStagingBuffer(m_staging_buffers, nBufCreated, type, size, createOK)
         IN  /\ m_staging_buffers' = r.buffers
             /\ nBufCreated' = r.n
             /\ life' = [Freeing(life, "buf", r.rel) EXCEPT
                           !.bufs = IF r.n > nBufCreated THEN @ \cup {r.n} ELSE @]
             /\ last' = [op |-> "getStagingBuffer", ret |-> "none", ev |-> r.ev,
                         failed |-> r.failed, ub |-> FALSE,
                         same |-> r.buffers = m_staging_buffers /\ r.n = nBufCreated]
             /\ args' = [NoArgs EXCEPT !.kind = type, !.size = size]
             /\ obs' = [NoObs EXCEPT !.preHnd = m_staging_buffers[type].h,
                                     !.hnd = r.ret.h,
                                     !.rel = r.rel,
                                     !.nNew = r.n - nBufCreated]
    /\ UNCHANGED <<gpu, deviceType, padding, tex, buf, m_staging_textures, nTexCreated,
                   released, cpuSrc, cpuDst, wr>>

\* release() / delete: the destructor of the engine.  Releasing through a null
\* m_query_event is undefined.
DestroyEngine ==
    /\ Alive
    /\ \E u \in UBOutcomes :
         LET d == IF deviceType = "D3D11"
                  THEN D3D11_Destructor(life, m_staging_textures, m_staging_buffers)
                  ELSE D3D9_Destructor(life, m_staging_textures, m_staging_buffers)
         IN  /\ life' = [d.life EXCEPT
                           !.state = IF d.life.nullFree /\ u = "Crash" THEN "Crash" ELSE @]
             /\ m_staging_textures' = d.textures
             /\ m_staging_buffers' = d.buffers
             /\ released' = released \cup d.rel
             /\ last' = [NoCall EXCEPT !.op = "release", !.ub = d.life.nullFree,
                                       !.same = FALSE]
    /\ UNCHANGED <<gpu, deviceType, padding, tex, buf, nTexCreated, nBufCreated,
                   cpuSrc, cpuDst, wr, args, obs>>

NextLife == CreateEngine \/ LifeRequestTexture \/ LifeRequestBuffer \/ DestroyEngine

SpecLife == InitLife /\ [][NextLife]_vars

(***************************************************************************)
(* Claims about creation and destruction (SpecLife).                       *)
(***************************************************************************)
\* C15: creating an engine with a null native device pointer fails and
\* returns no instance, for the D3D11 and for the D3D9 factory: no engine
\* object exists afterwards.
C15_NullDeviceNoInstance ==
    life.attempt = "null" => life.state = "none"

\* The staging textures, staging buffers and the query the engine created.
Owned ==
    {<<"tex", h>> : h \in DOMAIN life.made} \cup {<<"buf", h>> : h \in life.bufs}
        \cup (IF life.query THEN {<<"query", 0>>} ELSE {})

\* C16: once the engine is destroyed, every staging texture, every staging
\* buffer and the query object it created has been released exactly once:
\* none leaked, none released twice, no null handle released.
C16_DestroyReleasesAllOnce ==
    life.state \in {"destroyed", "Crash"} /\ last.op = "release" =>
        /\ Owned \subseteq life.freed
        /\ life.freed \subseteq Owned
        /\ ~life.twice
        /\ ~life.nullFree

\* C20: every non-null handle returned by a staging texture request refers to
\* a resource created with exactly the requested width, height and native
\* format, for all non-negative widths and heights, 65536 and above included.
C20_HandleMatchesRequest ==
    (last.op = "getStagingTexture" /\ obs.hnd # 0) =>
        life.made[obs.hnd] = [w |-> args.w, h |-> args.h,
                              fmt |-> InternalFormat(deviceType, args.fmt)]

(***************************************************************************)
(* Claims about mapped access inside one operation (Spec).                 *)
(***************************************************************************)
Maps == Positions({"Map", "LockRect"})

Unmaps == Positions({"Unmap", "UnlockRect"})

GpuCopies ==
    Positions({"CopyResource", "GetRenderTargetData", "UpdateSurface",
               "UpdateSubresource"})

\* The map at position i failed: the call failed and did nothing after it but
\* release the surface it held.
MapFailedAt(i) ==
    /\ last.failed
    /\ \A k \in (i + 1)..Len(last.ev) : last.ev[k].e = "Release"

\* The unmaps of the resource mapped at position i that follow it.
UnmapsOf(i) == {j \in Unmaps : j > i /\ last.ev[j].h = last.ev[i].h}

\* C17: every successful map or lock of a resource inside an operation is
\* followed by exactly one unmap or unlock of that resource before the
\* operation returns and before any GPU-side copy that uses it; at the return
\* of every operation, error paths included, no resource is left mapped.
C17_MapIsUnmapped ==
    ((IsTextureOp \/ IsBufferOp) /\ ~last.ub) =>
        /\ \A i \in Maps :
             \/ MapFailedAt(i) /\ UnmapsOf(i) = {}
             \/ /\ Cardinality(UnmapsOf(i)) = 1
                /\ \A j \in UnmapsOf(i) : \A c \in GpuCopies : ~(i < c /\ c < j)
        /\ \A j \in Unmaps : \E i \in Maps : i < j /\ last.ev[i].h = last.ev[j].h
        /\ Cardinality(Maps) <= 1

\* A D3D9 writeTexture has locked the staging surface, copied, unlocked it and
\* then handed it to UpdateSurface.
C17_Witness ==
    /\ deviceType = "D3D9"
    /\ last.op = "writeTexture"
    /\ ~last.ub
    /\ Maps # {} /\ Unmaps # {}
    /\ \E j \in Unmaps : \E c \in Positions({"UpdateSurface"}) : j < c

\* A D3D11 readBuffer has mapped and unmapped its staging buffer; another has
\* failed at Map.
C17_WitnessBuffer ==
    /\ deviceType = "D3D11"
    /\ last.op = "readBuffer"
    /\ ~last.ub /\ ~last.failed
    /\ \E i \in Maps : last.ev[i].h # 0 /\ Cardinality(UnmapsOf(i)) = 1

C17_WitnessMapFailed ==
    /\ last.op = "readTexture"
    /\ ~last.ub
    /\ \E i \in Maps : MapFailedAt(i)

\* C18: on the directly-writable path of writeTexture with a mapped pitch that
\* differs from width * texel size, each of the height rows takes exactly
\* width * texel size bytes from source offset row * source pitch to
\* destination offset row * mapped pitch: no source byte at or beyond
\* width * height * texel size is read, and the texture holds the source.
C18_WritableRowsStayInSource ==
    (/\ deviceType = "D3D11"
     /\ last.op = "writeTexture"
     /\ tex.cpuWrite
     /\ padding > 0
     /\ ValidCall
     /\ last.ret # "Crash") =>
        /\ ~last.ub
        /\ tex.data = cpuSrc

(***************************************************************************)
(* SpecRead: a caller that reads its texture into destination buffers of   *)
(* every size around width * height * texel size.                          *)
(***************************************************************************)
\* How far dst_size may fall short of or exceed width * height * texel size.
MaxSlack == 1

ReadShapes == {<<1, 2>>, <<2, 1>>}

\* The textures the caller of readTexture may hold.
ReadTextures(dev) ==
    {[w |-> wh[1], h |-> wh[2], fmt |-> fmt, cpuRead |-> cpuRead, cpuWrite |-> FALSE,
      data |-> Pattern(wh[1] * wh[2] * GetTexelSize(fmt), 1)] :
        wh \in ReadShapes, fmt \in TexFormats,
        cpuRead \in IF dev = "D3D11" THEN BOOLEAN ELSE {FALSE}}

\* The dst_size values the caller passes for a texture of `exact` bytes.
DstSizes(exact) == {n \in (exact - MaxSlack)..(exact + MaxSlack) : n >= 0}

InitRead ==
    /\ deviceType \in {"D3D11", "D3D9"}
    /\ tex \in ReadTextures(deviceType)
    /\ padding \in 0..MaxPad
    /\ buf = NoBuf
    /\ m_staging_textures = EmptyMap
    /\ m_staging_buffers = NoStagingBuffers
    /\ nTexCreated = 0
    /\ nBufCreated = 0
    /\ released = {}
    /\ cpuSrc = <<>>
    /\ cpuDst = <<>>
    /\ wr = NoWrite
    /\ last = NoCall
    /\ args = NoArgs
    /\ obs = NoObs
    /\ gpu = NoGpu
    /\ life = Constructed

\* readTexture(dst, dst_size, tex, width, height, format) with the texture's
\* own width, height and format, into a zeroed buffer of dst_size bytes.
ReadTextureSized ==
    /\ Running
    /\ \E size \in DstSizes(tex.w * tex.h * GetTexelSize(tex.fmt)) :
       \E o \in Outcomes(deviceType, tex.fmt) :
         LET a == [dst |-> "ptr", res |-> "ptr", src |-> "ptr", w |-> tex.w, h |-> tex.h,
                   fmt |-> tex.fmt, size |-> size, kind |-> "Index",
                   data |-> Fill(size, 0)]
         IN  \E r \in {readTexture(deviceType, Engine, a, o)} :
             /\ Leaves(r)
             /\ cpuDst' = r.dst
             /\ last' = LastOf("readTexture", r)
             /\ args' = ArgsOf(a)
             /\ obs' = TexObs(a, r)
    /\ UNCHANGED <<gpu, life, deviceType, padding, buf, cpuSrc, wr>>

NextRead == ReadTextureSized

SpecRead == InitRead /\ [][NextRead]_vars

(***************************************************************************)
(* Claims about the bounds of readTexture's copy (SpecRead).               *)
(***************************************************************************)
\* The last call was a readTexture that reached its copy.
ReadCopied == last.op = "readTexture" /\ Made("memcpy")

\* The pitches of the last call are equal (the bulk branch was taken).
BulkBranch == args.w * GetTexelSize(args.fmt) = tex.w * GetTexelSize(tex.fmt) + padding

\* C21: for every dst_size, width, height, format and mapped row pitch,
\* readTexture writes only destination bytes at offsets below dst_size and
\* reads only mapped bytes at offsets below height * mapped pitch, on the bulk
\* branch (pitches equal) and on the row-by-row branch (pitches differ).
C21_ReadStaysInBounds ==
    ReadCopied => ~last.ub

\* The same, for a dst_size of exactly width * height * texel size.
C21_ExactSizeStaysInBounds ==
    (ReadCopied /\ args.size = args.w * args.h * GetTexelSize(args.fmt)) =>
        /\ ~last.ub
        /\ Len(cpuDst) = args.size

(***************************************************************************)
(* Claims about formats of texel size zero (Spec).                         *)
(***************************************************************************)
\* The last call was a readTexture or writeTexture naming a format whose texel
\* size is 0.
ZeroTexelCall ==
    /\ IsTextureOp
    /\ deviceType \in {"D3D11", "D3D9"}
    /\ GetTexelSize(args.fmt) = 0

\* The backend calls that map, copy or update a resource.
MapCopyUpdate ==
    Positions({"Map", "LockRect", "memcpy", "CopyResource", "GetRenderTargetData",
               "UpdateSurface", "UpdateSubresource"})

\* C22: when the texel size of the requested format is 0, readTexture and
\* writeTexture return an error without dividing by the texel size, without
\* issuing any map, copy or update call, and without creating a staging
\* resource.
C22_ZeroTexelSizeIsRefused ==
    ZeroTexelCall =>
        /\ last.ret \in Error \ {"OK"}
        /\ ~Made("divide")
        /\ ~last.ub
        /\ MapCopyUpdate = {}
        /\ obs.nNew = 0

\* What the D3D9 readTexture does with such a format: the staging lookup
\* refuses it and the call returns Unknown before any backend call.
C22_D3D9ReadRefuses ==
    (ZeroTexelCall /\ deviceType = "D3D9" /\ last.op = "readTexture") =>
        /\ last.ret = "Unknown"
        /\ last.ev = <<>>
        /\ ~last.ub
        /\ obs.nNew = 0

====
